---- MODULE Spec2Model ----
(* Model of the waggle MCP server (src/src/waggle/server.py, database.py):   *)
(* the persisted state table, the tmux session registry, the reconciler      *)
(* cleanup_dead_sessions, list_agents and delete_repo_agents.                *)
(* Python strings are sequences of one-character strings, so that split,     *)
(* strip, lower, '=' and LIKE are computed character by character.           *)
EXTENDS Integers, Sequences, FiniteSets, TLC

(***************************************************************************)
(* Bounds                                                                  *)
(***************************************************************************)
\* largest number of rows the external writers put into the state table
MaxRows == 2
\* largest number of writer / session events that interleave with one request
MaxEnvSteps == 1
\* longest session name, session id and creation time given to the key codec
MaxFieldLen == 2
\* longest path string given to normalize_path
MaxPathLen == 4

\* lines in the registry output drawn when its parsing is applied on its own
MaxLines == 3

(***************************************************************************)
(* Python str helpers                                                      *)
(***************************************************************************)
\* Optional values: None is the empty tuple, a present value is a 1-tuple.
None == <<>>

Some(x) == <<x>>

\* characters removed by str.strip() with no argument
Whitespace == {" ", "\t", "\n"}

\* the upper-case letters used by the paths of this model and their lower case
UpperToLower == [A |-> "a", R |-> "r", S |-> "s", X |-> "x"]

\* str.lower() on one character
LowerChar(c) == IF c \in DOMAIN UpperToLower THEN UpperToLower[c] ELSE c

\* str.lower()
Lower(s) == [i \in 1..Len(s) |-> LowerChar(s[i])]

\* index of the first occurrence of character c in s, 0 when absent
IndexOf(s, c) ==
  IF \E i \in 1..Len(s) : s[i] = c
  THEN CHOOSE i \in 1..Len(s) : s[i] = c /\ \A j \in 1..(i-1) : s[j] # c
  ELSE 0

\* str.split(sep, maxsplit) for a one-character sep; maxsplit = -1 is unlimited
RECURSIVE Split(_, _, _)
Split(s, sep, maxsplit) ==
  IF maxsplit = 0 \/ IndexOf(s, sep) = 0
  THEN <<s>>
  ELSE LET i == IndexOf(s, sep)
       IN  <<SubSeq(s, 1, i-1)>> \o Split(SubSeq(s, i+1, Len(s)), sep, maxsplit - 1)

\* str.strip(): drop leading and trailing whitespace
RECURSIVE Strip(_)
Strip(s) ==
  IF s = <<>> THEN s
  ELSE IF s[1] \in Whitespace THEN Strip(Tail(s))
  ELSE IF s[Len(s)] \in Whitespace THEN Strip(SubSeq(s, 1, Len(s)-1))
  ELSE s

\* sep.join(parts) for a one-character sep
RECURSIVE Join(_, _)
Join(sep, parts) ==
  IF parts = <<>> THEN <<>>
  ELSE IF Len(parts) = 1 THEN parts[1]
  ELSE parts[1] \o <<sep>> \o Join(sep, Tail(parts))

\* "sub in s" for strings
Contains(s, sub) ==
  \E i \in 0..(Len(s) - Len(sub)) : SubSeq(s, i+1, i+Len(sub)) = sub

\* the elements of a sequence
Range(f) == {f[i] : i \in DOMAIN f}

\* order-preserving subsequence of the rows that belong to keep
RECURSIVE SelectRows(_, _)
SelectRows(rows, keep) ==
  IF rows = <<>> THEN <<>>
  ELSE IF rows[1] \in keep THEN <<rows[1]>> \o SelectRows(Tail(rows), keep)
  ELSE SelectRows(Tail(rows), keep)

(***************************************************************************)
(* tmux field separator and identity codec                                 *)
(***************************************************************************)
TMUX_FIELD_SEP == "\t"

\* f"{name}+{session_id}+{session_created}"
CompositeKey(name, session_id, session_created) ==
  name \o <<"+">> \o session_id \o <<"+">> \o session_created

DecodeKey_OneSplit(key) == Split(key, "+", 1)

\* DecodeKey that splits on every '+'
DecodeKey_SplitAll(key) == Split(key, "+", -1)

\* key.split('+', 2): the parts of a stored key; three when it is well-formed
DecodeKey(key) == Split(key, "+", 2)

(***************************************************************************)
(* Universe of values the environment draws from                           *)
(***************************************************************************)
\* tmux sessions that can exist: name, id, creation time, working directory
Sess1 == [name |-> <<"a">>, id |-> <<"1">>, created |-> <<"x">>, path |-> <<"/", "r">>]

Sess2 == [name |-> <<"b">>, id |-> <<"2">>, created |-> <<"y">>, path |-> <<"/", "r", "/", "s">>]

\* listing order of tmux list-sessions
SessionOrder == <<Sess1, Sess2>>

Sessions == Range(SessionOrder)

SessionKey(s) == CompositeKey(s.name, s.id, s.created)

\* a key written by a writer that does not decode into three parts
MalformedKey == <<"m", "+", "3">>


\* working directories the external writers record as namespace
Namespaces == { <<"/", "r">>, <<"/", "r", "/", "s">>, <<"/", "r", "x">>, <<"/", "R", "/", "s">> }


Row(key, repo, status) == [key |-> key, repo |-> repo, status |-> status]

\* rows the external writers upsert: the first session's agent under two
\* namespaces and, under /r, with either status; the second session's agent
\* under two namespaces; and one row with a malformed key
WriterRows ==
  {Row(SessionKey(Sess1), n, "working") : n \in {<<"/", "r">>, <<"/", "r", "x">>}}
  \cup {Row(SessionKey(Sess1), <<"/", "r">>, "waiting")}
  \cup {Row(SessionKey(Sess2), n, "waiting") : n \in {<<"/", "r", "/", "s">>, <<"/", "R", "/", "s">>}}
  \cup {Row(MalformedKey, <<"/", "r">>, "working")}

\* a line of registry output with too few fields
ShortLine == <<"a", "\t", "1">>

\* extra lines the registry output may carry besides the session lines
JunkLines == {<<>>, ShortLine}

\* process working directory and home directory of the server
Cwd == <<"/", "w">>

Home == <<"/", "h">>

(***************************************************************************)
(* State table (sqlite): rows in rowid order, key is the primary key       *)
(***************************************************************************)
KeysOf(rows) == {rows[i].key : i \in DOMAIN rows}

\* INSERT OR REPLACE INTO state (key, repo, status, updated_at) VALUES (...):
\* the row with the same key is removed and the new row gets a fresh rowid
Upsert_Append(rows, r) == rows \o <<r>>

Upsert_LostUpdate(rows, r) == <<r>>

Upsert(rows, r) == SelectRows(rows, {q \in Range(rows) : q.key # r.key}) \o <<r>>

\* SELECT key, repo, status FROM state
SelectAll(rows) == rows

\* SELECT key FROM state
SelectKeys(rows) == [i \in DOMAIN rows |-> rows[i].key]

\* DeleteKeys that deletes only the first key of the batch
DeleteKeys_FirstOnly(rows, keys) ==
  SelectRows(rows, {q \in Range(rows) : keys = <<>> \/ q.key # keys[1]})

\* DeleteKeys that marks the rows as dead instead of removing them
DeleteKeys_MarksDead(rows, keys) ==
  [i \in DOMAIN rows |-> IF rows[i].key \in Range(keys)
                          THEN [rows[i] EXCEPT !.status = "dead"] ELSE rows[i]]

\* DELETE FROM state WHERE key IN (...)
DeleteKeys(rows, keys) == SelectRows(rows, {q \in Range(rows) : q.key \notin Range(keys)})

\* sqlite LIKE without ESCAPE: '%' matches any run of characters, '_' any one
\* character, every other character matches itself ignoring ASCII case
RECURSIVE LikeMatch(_, _)
LikeMatch(pat, s) ==
  IF pat = <<>> THEN s = <<>>
  ELSE IF pat[1] = "%"
       THEN \E k \in 0..Len(s) : LikeMatch(Tail(pat), SubSeq(s, k+1, Len(s)))
  ELSE IF s = <<>> THEN FALSE
  ELSE IF pat[1] = "_" THEN LikeMatch(Tail(pat), Tail(s))
  ELSE LowerChar(pat[1]) = LowerChar(s[1]) /\ LikeMatch(Tail(pat), Tail(s))

\* WHERE repo = ? OR repo LIKE ?  with (namespace, f"{namespace}/%")
NamespaceMatch(repo, namespace) ==
  repo = namespace \/ LikeMatch(namespace \o <<"/", "%">>, repo)

\* DELETE FROM state WHERE repo = ? OR repo LIKE ?
DeleteNamespace(rows, namespace) ==
  SelectRows(rows, {q \in Range(rows) : ~NamespaceMatch(q.repo, namespace)})

\* RowCount that counts only the rows of the namespace itself
RowCount_ExactOnly(rows, namespace) ==
  Cardinality({i \in DOMAIN rows : rows[i].repo = namespace})

\* cursor.rowcount after the DELETE
RowCount(rows, namespace) ==
  Cardinality({i \in DOMAIN rows : NamespaceMatch(rows[i].repo, namespace)})

(***************************************************************************)
(* normalize_path and resolve_repo_root                                    *)
(***************************************************************************)
\* the components of a path string that pathlib keeps: empty ones and "."
\* are dropped, ".." is kept
PathParts(path_str) ==
  LET comps == Split(path_str, "/", -1)
      keep  == {i \in DOMAIN comps : comps[i] # <<>> /\ comps[i] # <<".">>}
      RECURSIVE Pick(_)
      Pick(i) == IF i > Len(comps) THEN <<>>
                 ELSE IF i \in keep THEN <<comps[i]>> \o Pick(i + 1)
                 ELSE Pick(i + 1)
  IN  Pick(1)

\* the root pathlib parses: "" for a relative path, "//" for exactly two
\* leading slashes, "/" otherwise
PathRoot(path_str) ==
  IF path_str = <<>> \/ path_str[1] # "/" THEN <<>>
  ELSE IF Len(path_str) >= 2 /\ path_str[2] = "/"
          /\ ~(Len(path_str) >= 3 /\ path_str[3] = "/")
       THEN <<"/", "/">>
  ELSE <<"/">>

\* Path(path_str)
PathOf(path_str) == [root |-> PathRoot(path_str), parts |-> PathParts(path_str)]

\* Path.expanduser(): a leading "~" component is replaced by the home directory
ExpandUser(p) ==
  IF p.root = <<>> /\ p.parts # <<>> /\ p.parts[1] = <<"~">>
  THEN [root |-> PathRoot(Home), parts |-> PathParts(Home) \o Tail(p.parts)]
  ELSE p

\* Path.absolute(): a relative path is joined to the working directory
Absolute(p) ==
  IF p.root # <<>> THEN p
  ELSE [root |-> PathRoot(Cwd), parts |-> PathParts(Cwd) \o p.parts]

\* str(Path)
PathStr(p) ==
  IF p.root = <<>> /\ p.parts = <<>> THEN <<".">>
  ELSE p.root \o Join("/", p.parts)

\* str.rstrip('/')
RECURSIVE RStripSlash(_)
RStripSlash(s) ==
  IF s # <<>> /\ s[Len(s)] = "/" THEN RStripSlash(SubSeq(s, 1, Len(s) - 1)) ELSE s

\* normalize_path(path_str)
NormalizePath(path_str) ==
  LET normalized == PathStr(Absolute(ExpandUser(PathOf(path_str))))
  IN  IF Len(normalized) > 1 /\ normalized[Len(normalized)] = "/"
      THEN RStripSlash(normalized)
      ELSE normalized

\* resolve_repo_root: client_root is the root path the client lists (None when
\* it lists none), explicit_root the repo_root argument (None when absent).
\* The result is Some(namespace), or None when ValueError is raised.
ResolveRepoRoot_ExplicitFirst(client_root, explicit_root) ==
  LET raw_root ==
        IF explicit_root # None /\ explicit_root[1] # <<>> THEN explicit_root
        ELSE IF client_root # None THEN Some(PathStr(PathOf(client_root[1])))
        ELSE None
  IN  IF raw_root = None THEN None ELSE Some(NormalizePath(raw_root[1]))

ResolveRepoRoot(client_root, explicit_root) ==
  LET raw_root ==
        IF client_root # None THEN Some(PathStr(PathOf(client_root[1])))
        ELSE IF explicit_root # None /\ explicit_root[1] # <<>> THEN explicit_root
        ELSE None
  IN  IF raw_root = None THEN None ELSE Some(NormalizePath(raw_root[1]))

\* the message of the ValueError resolve_repo_root raises
RootsMessage ==
  "Your MCP client does not support the roots protocol. Please provide repo_root parameter when calling this tool."

(***************************************************************************)
(* tmux list-sessions output and its parsing                               *)
(***************************************************************************)
\* one line of tmux list-sessions -F with the 3- or 4-field format
SessionLine(s, with_path) ==
  Join(TMUX_FIELD_SEP, IF with_path THEN <<s.name, s.id, s.created, s.path>>
                                    ELSE <<s.name, s.id, s.created>>)

\* stdout of tmux list-sessions for the sessions alive at the call; junk is an
\* extra line (none when empty) printed before the session lines
RegistryStdout(alive, junk, with_path) ==
  LET RECURSIVE Lines(_)
      Lines(i) == IF i > Len(SessionOrder) THEN <<>>
                  ELSE IF SessionOrder[i] \in alive
                       THEN SessionLine(SessionOrder[i], with_path) \o <<"\n">> \o Lines(i + 1)
                  ELSE Lines(i + 1)
  IN  (IF junk = <<>> THEN <<>> ELSE junk \o <<"\n">>) \o Lines(1)

\* result.stdout.strip().split('\n')
OutputLines(stdout) == Split(Strip(stdout), "\n", -1)

\* the set active_sessions built by cleanup_dead_sessions
ActiveSessions(stdout) ==
  LET lines == OutputLines(stdout)
  IN  { CompositeKey(Split(lines[i], TMUX_FIELD_SEP, 2)[1],
                     Split(lines[i], TMUX_FIELD_SEP, 2)[2],
                     Split(lines[i], TMUX_FIELD_SEP, 2)[3]) :
          i \in {j \in DOMAIN lines : lines[j] # <<>>
                                      /\ Len(Split(lines[j], TMUX_FIELD_SEP, 2)) >= 3} }

\* RegistryKeys with a failed query read as an empty live set
RegistryKeys_EmptyOnFailure(outcome, stdout) ==
  IF outcome = "ok" THEN Some(ActiveSessions(stdout)) ELSE Some({})

\* RegistryKeys without the test of the exit status
RegistryKeys_NonzeroParsed(outcome, stdout) ==
  IF outcome \in {"ok", "nonzero"} THEN Some(ActiveSessions(stdout)) ELSE None

\* what cleanup_dead_sessions learns from the registry call: Some(the set
\* active_sessions) when the command exited with status 0, None when it
\* exited non-zero or subprocess.run raised (no live set is built)
RegistryKeys(outcome, stdout) ==
  IF outcome = "ok" THEN Some(ActiveSessions(stdout)) ELSE None

\* OrphanedKeys that leaves alone the keys that do not decode
OrphanedKeys_DecodableOnly(all_keys, active) ==
  SelectSeq(all_keys, LAMBDA k : k \notin active /\ Len(DecodeKey(k)) = 3)

\* OrphanedKeys with the membership test inverted
OrphanedKeys_Inverted(all_keys, active) == SelectSeq(all_keys, LAMBDA k : k \in active)

\* the list orphaned_keys: the fetched keys that are not in active_sessions
OrphanedKeys(all_keys, active) == SelectSeq(all_keys, LAMBDA k : k \notin active)

\* TmuxSessions that stops after the first line it accepts
TmuxSessions_FirstLineOnly(stdout) ==
  LET lines == OutputLines(stdout)
      Parts(i) == Split(lines[i], TMUX_FIELD_SEP, 3)
      good  == {j \in DOMAIN lines : lines[j] # <<>> /\ Len(Parts(j)) >= 4}
  IN  { <<CompositeKey(Parts(i)[1], Parts(i)[2], Parts(i)[3]), Parts(i)[4]>> :
          i \in {j \in good : \A k \in good : j <= k} }

\* the dict tmux_sessions built by list_agents, as a set of <<key, path>>
\* pairs; a later line overwrites an earlier one with the same key
TmuxSessions(stdout) ==
  LET lines == OutputLines(stdout)
      Parts(i) == Split(lines[i], TMUX_FIELD_SEP, 3)
      good  == {j \in DOMAIN lines : lines[j] # <<>> /\ Len(Parts(j)) >= 4}
      KeyAt(i) == CompositeKey(Parts(i)[1], Parts(i)[2], Parts(i)[3])
  IN  { <<KeyAt(i), Parts(i)[4]>> :
          i \in {j \in good : \A k \in good : KeyAt(k) = KeyAt(j) => k <= j} }

\* DeleteStatements with one DELETE per orphaned key
DeleteStatements_PerKey(orphaned) == [i \in DOMAIN orphaned |-> <<orphaned[i]>>]

\* the DELETE statements cleanup_dead_sessions executes, each given by the
\* keys bound to its placeholders: none when orphaned_keys is empty, otherwise
\* one DELETE FROM state WHERE key IN (?,...) with every orphaned key
DeleteStatements(orphaned) == IF orphaned = <<>> THEN <<>> ELSE <<orphaned>>

\* the table after the statements ran in order
RECURSIVE ApplyDeletes(_, _)
\* ApplyDeletes that removes only the first key of the first statement
ApplyDeletes_FirstKey(rows, statements) ==
  IF statements = <<>> THEN rows ELSE DeleteKeys(rows, <<statements[1][1]>>)

ApplyDeletes(rows, statements) ==
  IF statements = <<>> THEN rows
  ELSE ApplyDeletes(DeleteKeys(rows, statements[1]), Tail(statements))

(***************************************************************************)
(* list_agents: building and enriching the agents list                     *)
(***************************************************************************)
\* the loop body of list_agents for one row: the agent appended for it, or
\* None when the row is skipped (malformed key, name filter, repo filter)
AgentOfRow_PadsMalformed(row, name, repo) ==
  LET parts == DecodeKey(row.key) \o <<<<>>, <<>>>>
  IN  IF name # None /\ parts[1] # name[1] THEN None
      ELSE IF repo # None /\ ~Contains(Lower(row.repo), Lower(repo[1])) THEN None
      ELSE Some([name |-> parts[1], session_id |-> parts[2],
                 session_created |-> parts[3], status |-> row.status,
                 repo |-> row.repo, directory |-> None])

AgentOfRow_RepoCaseSensitive(row, name, repo) ==
  LET parts == DecodeKey(row.key)
  IN  IF Len(parts) # 3 THEN None
      ELSE IF name # None /\ parts[1] # name[1] THEN None
      ELSE IF repo # None /\ ~Contains(row.repo, repo[1]) THEN None
      ELSE Some([name |-> parts[1], session_id |-> parts[2],
                 session_created |-> parts[3], status |-> row.status,
                 repo |-> row.repo, directory |-> None])

AgentOfRow_NameIgnoresCase(row, name, repo) ==
  LET parts == DecodeKey(row.key)
  IN  IF Len(parts) # 3 THEN None
      ELSE IF name # None /\ Lower(parts[1]) # Lower(name[1]) THEN None
      ELSE IF repo # None /\ ~Contains(Lower(row.repo), Lower(repo[1])) THEN None
      ELSE Some([name |-> parts[1], session_id |-> parts[2],
                 session_created |-> parts[3], status |-> row.status,
                 repo |-> row.repo, directory |-> None])

AgentOfRow(row, name, repo) ==
  LET parts == DecodeKey(row.key)
  IN  IF Len(parts) # 3 THEN None
      ELSE IF name # None /\ parts[1] # name[1] THEN None
      ELSE IF repo # None /\ ~Contains(Lower(row.repo), Lower(repo[1])) THEN None
      ELSE Some([name |-> parts[1], session_id |-> parts[2],
                 session_created |-> parts[3], status |-> row.status,
                 repo |-> row.repo, directory |-> None])

RECURSIVE BuildAgents(_, _, _)
\* BuildAgents that puts each agent in front of the list
BuildAgents_Prepend(state_entries, name, repo) ==
  LET RECURSIVE Build(_)
      Build(rows) == IF rows = <<>> THEN <<>>
                     ELSE Build(Tail(rows)) \o AgentOfRow(rows[1], name, repo)
  IN  Build(state_entries)

\* the agents list built from state_entries
BuildAgents(state_entries, name, repo) ==
  IF state_entries = <<>> THEN <<>>
  ELSE AgentOfRow(state_entries[1], name, repo) \o BuildAgents(Tail(state_entries), name, repo)

\* the composite key list_agents rebuilds for an agent
AgentKey(agent) == CompositeKey(agent.name, agent.session_id, agent.session_created)

\* EnrichAgents that also lists the tmux sessions no agent matches
EnrichAgents_AddsLive(agents, tmux_sessions) ==
  LET extra == {e \in tmux_sessions : \A i \in DOMAIN agents : AgentKey(agents[i]) # e[1]}
      RECURSIVE Listed(_)
      Listed(es) ==
        IF es = {} THEN <<>>
        ELSE LET e == CHOOSE x \in es : TRUE
                 parts == Split(e[1], "+", 2)
             IN  <<[name |-> parts[1], session_id |-> parts[2],
                    session_created |-> parts[3], status |-> "unknown",
                    repo |-> e[2], directory |-> Some(e[2])]>> \o Listed(es \ {e})
  IN  [i \in DOMAIN agents |->
         IF \E e \in tmux_sessions : e[1] = AgentKey(agents[i])
         THEN [agents[i] EXCEPT !.directory =
                 Some((CHOOSE e \in tmux_sessions : e[1] = AgentKey(agents[i]))[2])]
         ELSE agents[i]] \o Listed(extra)

\* EnrichAgents that gives every agent the directory of some reported session
EnrichAgents_AnySession(agents, tmux_sessions) ==
  [i \in DOMAIN agents |->
     IF tmux_sessions # {}
     THEN [agents[i] EXCEPT !.directory = Some((CHOOSE e \in tmux_sessions : TRUE)[2])]
     ELSE agents[i]]

\* the enrichment loop: directory is set when the key is in tmux_sessions
EnrichAgents(agents, tmux_sessions) ==
  [i \in DOMAIN agents |->
     IF \E e \in tmux_sessions : e[1] = AgentKey(agents[i])
     THEN [agents[i] EXCEPT !.directory =
             Some((CHOOSE e \in tmux_sessions : e[1] = AgentKey(agents[i]))[2])]
     ELSE agents[i]]

(***************************************************************************)
(* Exceptions                                                              *)
(***************************************************************************)
\* the exception types of this model; all derive from Exception
ExceptionClass == {"TimeoutExpired", "CalledProcessError", "FileNotFoundError",
                   "PermissionError", "sqlite3.Error", "ValueError"}

\* outcomes of subprocess.run(["tmux", "list-sessions", ...]): normal exit,
\* non-zero exit status, or an exception raised by run itself
RegistryOutcomes == {"ok", "nonzero", "TimeoutExpired", "FileNotFoundError", "PermissionError"}

\* CleanupCatches narrowed to the subprocess errors list_agents names
CleanupCatches_SubprocessOnly(exc) ==
  exc \in {"TimeoutExpired", "CalledProcessError", "FileNotFoundError"}

\* except Exception in cleanup_dead_sessions
CleanupCatches(exc) == exc \in ExceptionClass

\* QueryCatches narrowed to ValueError
QueryCatches_ValueErrorOnly(exc) == exc = "ValueError"

\* except Exception around the store scan of list_agents
QueryCatches(exc) == exc \in ExceptionClass

\* EnrichCatches without the TimeoutExpired clause
EnrichCatches_NoTimeout(exc) == exc \in {"CalledProcessError", "FileNotFoundError"}

\* the except clauses around the enrichment of list_agents
EnrichCatches(exc) == exc \in {"TimeoutExpired", "CalledProcessError", "FileNotFoundError"}

\* except Exception around the delete of delete_repo_agents
ResolveCatches_Nothing(exc) == FALSE

\* delete_repo_agents, around resolve_repo_root: except ValueError
ResolveCatches(exc) == exc = "ValueError"

DeleteCatches_ValueErrorOnly(exc) == exc = "ValueError"

\* except Exception around the unit of work of delete_repo_agents
DeleteCatches(exc) == exc \in ExceptionClass

(***************************************************************************)
(* connection(): one unit of work                                          *)
(***************************************************************************)
\* get_db_path() without a config file: ~/.waggle/agent_state.db, expanded
DbPath == Home \o <<"/", ".", "w", "/", "d", "b">>

\* where a unit of work fails: nowhere, in sqlite3.connect, in one of the
\* body's statements, or in the commit at the exit
UnitFaults == {"ok", "connect", "select", "delete", "ddl", "commit"}

ExitTable_NoRollback(rows, pending, fault) == pending

\* the table after the context manager is left; rows is the table before the
\* unit, pending the table as the body's statements changed it inside the
\* transaction: committed on a normal exit, rolled back on any exception
ExitTable(rows, pending, fault) == IF fault = "ok" THEN pending ELSE rows

ExitOpen_LeakOnCommitFailure(fault) == fault = "commit"

ExitOpen_NoFinally(fault) == fault \notin {"ok", "connect"}

\* whether the connection is still open after the context manager is left:
\* the finally clause closes whatever was opened
ExitOpen(fault) == FALSE

ExitCalls_Unguarded(fault) ==
  IF fault = "ok" THEN <<"commit", "close">>
  ELSE IF fault = "commit" THEN <<"commit", "rollback", "close">>
  ELSE <<"rollback", "close">>

\* the calls made on the connection at the exit, in order; conn is None when
\* sqlite3.connect failed and every call is guarded by "if conn"
ExitCalls(fault) ==
  IF fault = "connect" THEN <<>>
  ELSE IF fault = "ok" THEN <<"commit", "close">>
  ELSE IF fault = "commit" THEN <<"commit", "rollback", "close">>
  ELSE <<"rollback", "close">>

\* the exception that leaves the context manager: none, the sqlite3.Error that
\* wraps a failed connect with the path, or the body's or commit's exception
\* re-raised as it is
ExitError(fault) ==
  IF fault = "ok" THEN None
  ELSE IF fault = "connect"
       THEN Some([class |-> "sqlite3.Error",
                  text |-> "Failed to connect to database at", path |-> Some(DbPath)])
  ELSE Some([class |-> "sqlite3.Error", text |-> fault, path |-> None])

\* what a caller can see of one unit of work after its exit
UnitExit(fault) == [calls |-> ExitCalls(fault), error |-> ExitError(fault)]

NoUnit == [calls |-> <<>>, error |-> None]

(***************************************************************************)
(* State                                                                   *)
(***************************************************************************)
VARIABLES
  store,            \* rows of the state table, in rowid order
  live,             \* tmux sessions currently alive
  pc,               \* position of the server in the request it is handling
  op,               \* the request being handled: "none", "list", "delete"
                    \* or "startup"
  conn,             \* TRUE while a connection opened by the server is open
  active_sessions,  \* cleanup_dead_sessions: keys parsed from the registry
  orphaned_keys,    \* cleanup_dead_sessions: keys collected for the delete
  args,             \* the arguments of the call: list_agents' name and repo
                    \* filters, delete_repo_agents' client root and repo_root
  state_entries,    \* list_agents: rows fetched by the store scan
  agents,           \* list_agents: the agents list
  result,           \* what the request returned (or that it raised)
  startStore,       \* the table when the request began
  obs,              \* outcomes of the external calls made by the request
  envSteps,         \* writer / session events since the request began
  written,          \* what the writers committed since the last server step
  tables,           \* number of state tables in the database file
  recovering,       \* the previous request failed and no external call of
                    \* the current request has failed so far
  input,            \* the arguments of a function applied on its own
  output            \* what that function returned

\* the variables of the server and its environment
serverVars == <<store, live, pc, op, conn, active_sessions, orphaned_keys, args,
                state_entries, agents, result, startStore, obs, envSteps,
                written, tables, recovering>>

vars == <<serverVars, input, output>>

NoResult == [status |-> "none", agents |-> None, deleted_count |-> None, error |-> ""]

\* {"status": "success", "agents": agents}
ListSuccess(a) == [status |-> "success", agents |-> Some(a), deleted_count |-> None, error |-> ""]

\* {"status": "success", "deleted_count": deleted_count}
DeleteSuccess(n) == [status |-> "success", agents |-> None, deleted_count |-> Some(n), error |-> ""]

\* {"status": "error", "error": message}
ErrorResult(message) == [status |-> "error", agents |-> None, deleted_count |-> None, error |-> message]

\* the exception left the tool function
Raised(exc) == [status |-> "raised", agents |-> None, deleted_count |-> None, error |-> exc]

NoArgs == [name |-> None, repo |-> None, client_root |-> None, repo_root |-> None]

NoObs == [reg |-> "none", db |-> "none", ended |-> "none", scan |-> "none",
          enrich |-> "none", resolve |-> "none", namespace |-> None,
          unit |-> NoUnit, deletes |-> <<>>]

\* the server before startup, with no request, no record and no session
InitServer ==
  /\ store = <<>>
  /\ live = {}
  /\ pc = "idle"
  /\ op = "none"
  /\ conn = FALSE
  /\ active_sessions = {}
  /\ orphaned_keys = <<>>
  /\ args = NoArgs
  /\ state_entries = <<>>
  /\ agents = <<>>
  /\ result = NoResult
  /\ startStore = <<>>
  /\ obs = NoObs
  /\ envSteps = 0
  /\ written = {}
  /\ tables = 0
  /\ recovering = FALSE

Init ==
  /\ InitServer
  /\ input = None
  /\ output = None

\* no external call recorded in o has failed
AllOk(o) ==
  /\ o.reg \in {"none", "ok"}
  /\ o.db \in {"none", "ok", "nodelete"}
  /\ o.scan \in {"none", "ok"}
  /\ o.enrich \in {"none", "ok"}
  /\ o.resolve \in {"none", "ok"}

\* the request that is returning failed: list_agents or delete_repo_agents
\* returns an error result, or the reconciliation of list_agents swallowed a
\* failure of its registry query or of its unit of work
FailedRequest ==
  /\ op \in {"list", "delete"}
  /\ \/ result.status = "error"
     \/ op = "list" /\ obs.ended = "returned"
          /\ (obs.reg # "ok" \/ obs.db \in {"connect", "select", "delete", "commit"})

(***************************************************************************)
(* Environment: external writers (the hook) and tmux sessions              *)
(***************************************************************************)
\* Writers and sessions act at any time.  An event commutes with every server
\* step that neither reads nor writes what the event changes, so it is taken
\* at the last position before the next step it does not commute with:
\*  - a writer changes the table, which the registry query, the enrichment and
\*    the return do not touch: between requests, between the reconciliation's
\*    select and its delete, and between the reconciliation and the scan;
\*  - a session changes the registry, which the store steps do not read:
\*    between requests, before the reconciliation's delete (so that the live
\*    set at the moment of the delete is a state of the model) and before the
\*    enrichment query.
WriterMayStep ==
  pc = "idle" \/ (pc \in {"cleanup_delete", "scan"} /\ envSteps < MaxEnvSteps)

SessionMayStep ==
  pc = "idle" \/ (pc \in {"cleanup_delete", "enrich"} /\ envSteps < MaxEnvSteps)

EnvCount == IF pc = "idle" THEN 0 ELSE envSteps + 1

\* the writes committed since the last server step, after one more write of
\* row r to the table rows: per key the row written last, whether that write
\* replaced a record, and every status written for the key
Committed(log, rows, r) ==
  {w \in log : w.row.key # r.key} \cup
  {[row |-> r,
    replaced |-> r.key \in KeysOf(rows),
    statuses |-> {r.status} \cup UNION {w.statuses : w \in {v \in log : v.row.key = r.key}}]}

\* a writer process upserts one row into the existing table and commits; the
\* write transactions of concurrent writers are serialized by the database
WriterUpsert(row) ==
  /\ UNCHANGED <<input, output>>
  /\ WriterMayStep
  /\ tables = 1
  /\ Len(Upsert(store, row)) <= MaxRows
  /\ store' = Upsert(store, row)
  /\ written' = Committed(written, store, row)
  /\ envSteps' = EnvCount
  /\ UNCHANGED <<live, pc, op, conn, active_sessions, orphaned_keys, args,
                 state_entries, agents, result, startStore, obs, tables>>
  /\ UNCHANGED recovering

\* a tmux session is created
SessionStart(s) ==
  /\ UNCHANGED <<input, output>>
  /\ SessionMayStep
  /\ s \notin live
  /\ live' = live \cup {s}
  /\ envSteps' = EnvCount
  /\ UNCHANGED <<store, pc, op, conn, active_sessions, orphaned_keys, args,
                 state_entries, agents, result, startStore, obs, written, tables>>
  /\ UNCHANGED recovering

\* a tmux session ends
SessionEnd(s) ==
  /\ UNCHANGED <<input, output>>
  /\ SessionMayStep
  /\ s \in live
  /\ live' = live \ {s}
  /\ envSteps' = EnvCount
  /\ UNCHANGED <<store, pc, op, conn, active_sessions, orphaned_keys, args,
                 state_entries, agents, result, startStore, obs, written, tables>>
  /\ UNCHANGED recovering

(***************************************************************************)
(* cleanup_dead_sessions, as called first by list_agents                   *)
(***************************************************************************)
\* CleanupExit that runs the unit of work again after a failure
CleanupExit_Retry(exc, o) ==
  /\ pc' = "cleanup_select"
  /\ result' = result
  /\ obs' = o

\* the exception exc raised inside the try block of cleanup_dead_sessions:
\* swallowed, and list_agents goes on to its scan, or it leaves list_agents
CleanupExit(exc, o) ==
  IF CleanupCatches(exc)
  THEN /\ pc' = "scan"
       /\ result' = result
       /\ obs' = [o EXCEPT !.ended = "returned"]
  ELSE /\ pc' = "done"
       /\ result' = Raised(exc)
       /\ obs' = [o EXCEPT !.ended = "raised"]

\* list_agents is called; cleanup_dead_sessions runs tmux list-sessions with
\* the 3-field format and parses its output
CleanupQuery(outcome, junk) ==
  /\ UNCHANGED <<input, output>>
  /\ pc = "idle"
  /\ tables = 1
  /\ written' = {}
  /\ tables' = tables
  /\ op' = "list"
  /\ startStore' = store
  /\ envSteps' = 0
  /\ IF RegistryKeys(outcome, RegistryStdout(live, junk, FALSE)) # None
     THEN /\ active_sessions' = RegistryKeys(outcome, RegistryStdout(live, junk, FALSE))[1]
          /\ pc' = "cleanup_select"
          /\ obs' = [obs EXCEPT !.reg = outcome]
          /\ result' = result
     ELSE IF outcome = "nonzero"
     THEN /\ active_sessions' = active_sessions
          /\ pc' = "scan"
          /\ obs' = [obs EXCEPT !.reg = outcome, !.ended = "returned"]
          /\ result' = result
     ELSE /\ active_sessions' = active_sessions
          /\ CleanupExit(outcome, [obs EXCEPT !.reg = outcome])
  /\ UNCHANGED <<store, live, conn, orphaned_keys, args, state_entries, agents>>
  /\ recovering' = (recovering /\ AllOk(obs'))

\* connection(db_path) is entered and SELECT key FROM state runs; the orphaned
\* keys are collected
CleanupSelect(fault) ==
  /\ UNCHANGED <<input, output>>
  /\ pc = "cleanup_select"
  /\ written' = {}
  /\ tables' = tables
  /\ IF fault = "ok"
     THEN /\ orphaned_keys' = OrphanedKeys(SelectKeys(store), active_sessions)
          /\ conn' = TRUE
          /\ pc' = "cleanup_delete"
          /\ obs' = obs
          /\ result' = result
     ELSE \* connect failed (no connection to roll back or close), or the
          \* select failed (rollback, close); sqlite3.Error reaches the handler
          /\ orphaned_keys' = orphaned_keys
          /\ conn' = ExitOpen(fault)
          /\ CleanupExit(ExitError(fault)[1].class,
                         [obs EXCEPT !.db = fault, !.unit = UnitExit(fault)])
  /\ UNCHANGED <<store, live, op, active_sessions, args, state_entries, agents,
                 startStore, envSteps>>
  /\ recovering' = (recovering /\ AllOk(obs'))

\* the batched DELETE (only when there are orphans), commit and close
CleanupDelete(fault) ==
  /\ UNCHANGED <<input, output>>
  /\ pc = "cleanup_delete"
  /\ written' = {}
  /\ tables' = tables
  /\ conn' = ExitOpen(fault)
  /\ IF DeleteStatements(orphaned_keys) = <<>>
     THEN /\ fault = "ok"
          /\ store' = ExitTable(store, store, fault)
          /\ pc' = "scan"
          /\ result' = result
          /\ obs' = [obs EXCEPT !.db = "nodelete", !.ended = "returned",
                                !.unit = UnitExit(fault)]
     ELSE IF fault = "ok"
     THEN /\ store' = ExitTable(store, ApplyDeletes(store, DeleteStatements(orphaned_keys)),
                                fault)
          /\ pc' = "scan"
          /\ result' = result
          /\ obs' = [obs EXCEPT !.db = "ok", !.ended = "returned",
                                !.unit = UnitExit(fault),
                                !.deletes = DeleteStatements(orphaned_keys)]
     ELSE \* the DELETE failed and changed nothing, or the commit failed with
          \* the DELETE pending: rollback, close, re-raise
          /\ store' = ExitTable(store, IF fault = "commit"
                                       THEN ApplyDeletes(store, DeleteStatements(orphaned_keys))
                                       ELSE store, fault)
          /\ CleanupExit(ExitError(fault)[1].class,
                         [obs EXCEPT !.db = fault, !.unit = UnitExit(fault),
                                     !.deletes = DeleteStatements(orphaned_keys)])
  /\ UNCHANGED <<live, op, active_sessions, orphaned_keys, args, state_entries,
                 agents, startStore, envSteps>>
  /\ recovering' = (recovering /\ AllOk(obs'))

(***************************************************************************)
(* list_agents after the reconciliation                                    *)
(***************************************************************************)
\* the (name, repo) filters a caller passes: none, or a name with a repo
ListFilters == {<<None, None>>, <<Some(<<"a">>), Some(<<"R", "x">>)>>}

\* the store scan: connection, SELECT key, repo, status FROM state, and the
\* loop that builds the agents list; the commit finds no open transaction
Scan(name, repo, fault) ==
  /\ UNCHANGED <<input, output>>
  /\ pc = "scan"
  /\ written' = {}
  /\ tables' = tables
  /\ args' = [NoArgs EXCEPT !.name = name, !.repo = repo]
  /\ IF fault = "ok"
     THEN /\ state_entries' = SelectAll(store)
          /\ agents' = BuildAgents(SelectAll(store), name, repo)
          /\ pc' = "enrich"
          /\ result' = result
          /\ obs' = [obs EXCEPT !.scan = "ok", !.unit = UnitExit(fault)]
     ELSE /\ state_entries' = state_entries
          /\ agents' = agents
          /\ obs' = [obs EXCEPT !.scan = fault, !.unit = UnitExit(fault)]
          /\ pc' = "done"
          /\ result' = IF QueryCatches(ExitError(fault)[1].class)
                       THEN ErrorResult("Failed to query database")
                       ELSE Raised(ExitError(fault)[1].class)
  /\ conn' = ExitOpen(fault)
  /\ store' = ExitTable(store, store, fault)
  /\ UNCHANGED <<live, op, active_sessions, orphaned_keys, startStore, envSteps>>
  /\ recovering' = (recovering /\ AllOk(obs'))

\* the exception subprocess.run raises for an outcome when check=True
CheckedException(outcome) == IF outcome = "nonzero" THEN "CalledProcessError" ELSE outcome

\* tmux list-sessions with the 4-field format, the enrichment loop, and the
\* return of list_agents
Enrich(outcome, junk) ==
  /\ UNCHANGED <<input, output>>
  /\ pc = "enrich"
  /\ written' = {}
  /\ tables' = tables
  /\ pc' = "done"
  /\ obs' = [obs EXCEPT !.enrich = outcome]
  /\ IF outcome = "ok"
     THEN /\ agents' = EnrichAgents(agents, TmuxSessions(RegistryStdout(live, junk, TRUE)))
          /\ result' = ListSuccess(agents')
     ELSE /\ agents' = agents
          /\ result' = IF EnrichCatches(CheckedException(outcome))
                       THEN ListSuccess(agents)
                       ELSE Raised(CheckedException(outcome))
  /\ UNCHANGED <<store, live, op, conn, active_sessions, orphaned_keys, args,
                 state_entries, startStore, envSteps>>
  /\ recovering' = (recovering /\ AllOk(obs'))

(***************************************************************************)
(* delete_repo_agents                                                      *)
(***************************************************************************)
\* roots a client lists (None: it lists none or has no roots protocol)
ClientRoots == {None, Some(<<"/", "r", "x">>), Some(<<"/", "r", "/">>)}

\* repo_root arguments a caller passes
ExplicitRoots ==
  {None, Some(<<>>)} \cup {Some(n) : n \in Namespaces} \cup {Some(<<"/", "r", "/">>)}

\* the whole tool: resolve the namespace, then one unit of work that deletes
\* the namespace and its subtree and reads cursor.rowcount
DeleteRepoAgents(client_root, explicit_root, fault) ==
  /\ UNCHANGED <<input, output>>
  /\ pc = "idle"
  /\ tables = 1
  /\ written' = {}
  /\ tables' = tables
  /\ pc' = "done"
  /\ op' = "delete"
  /\ startStore' = store
  /\ envSteps' = 0
  /\ LET namespace == ResolveRepoRoot(client_root, explicit_root)
     IN  IF namespace = None
         THEN \* ValueError from resolve_repo_root; the store is not opened
              /\ fault = "ok"
              /\ store' = store
              /\ conn' = conn
              /\ obs' = [obs EXCEPT !.resolve = "ValueError"]
              /\ result' = IF ResolveCatches("ValueError")
                           THEN ErrorResult(RootsMessage)
                           ELSE Raised("ValueError")
         ELSE IF fault = "ok"
         THEN /\ store' = ExitTable(store, DeleteNamespace(store, namespace[1]), fault)
              /\ conn' = ExitOpen(fault)
              /\ obs' = [obs EXCEPT !.resolve = "ok", !.namespace = namespace,
                                    !.db = "ok", !.unit = UnitExit(fault)]
              /\ result' = DeleteSuccess(RowCount(store, namespace[1]))
         ELSE \* connect or DELETE failed and changed nothing, or the commit
              \* failed with the DELETE pending: rollback, close, re-raise
              /\ store' = ExitTable(store, IF fault = "commit"
                                           THEN DeleteNamespace(store, namespace[1])
                                           ELSE store, fault)
              /\ conn' = ExitOpen(fault)
              /\ obs' = [obs EXCEPT !.resolve = "ok", !.namespace = namespace,
                                    !.db = fault, !.unit = UnitExit(fault)]
              /\ result' = IF DeleteCatches(ExitError(fault)[1].class)
                           THEN ErrorResult("Failed to clean up database")
                           ELSE Raised(ExitError(fault)[1].class)
  /\ args' = [NoArgs EXCEPT !.client_root = client_root, !.repo_root = explicit_root]
  /\ UNCHANGED <<live, active_sessions, orphaned_keys, state_entries, agents>>
  /\ recovering' = (recovering /\ AllOk(obs'))

(***************************************************************************)
(* startup and init_schema                                                 *)
(***************************************************************************)
\* the DDL of schema.sql run on a database db = (tables, rows): the state
\* table is created, empty, if it is absent and nothing is touched otherwise
SchemaDDL(db) ==
  IF db.tables = 0 THEN [tables |-> 1, rows |-> <<>>] ELSE db

InitSchema_Recreate(db, fault) ==
  IF fault = "ok" THEN [tables |-> 1, rows |-> <<>>] ELSE db

\* init_schema: one unit of work that executes the DDL; a failed connect or
\* a failed statement leaves the database as it was
InitSchema(db, fault) ==
  ExitTable(db, IF fault = "ok" THEN SchemaDDL(db) ELSE db, fault)

\* startup(): init_schema(get_db_path()); it returns None or raises.  run()
\* calls it before the tools are served, which is why the tools and the
\* writers act on an existing table (tables = 1); it may be called again at
\* any idle point.
Startup(fault) ==
  /\ UNCHANGED <<input, output>>
  /\ pc = "idle"
  /\ pc' = "done"
  /\ op' = "startup"
  /\ startStore' = store
  /\ envSteps' = 0
  /\ written' = {}
  /\ LET db == InitSchema([tables |-> tables, rows |-> store], fault)
     IN  /\ tables' = db.tables
         /\ store' = db.rows
  /\ conn' = ExitOpen(fault)
  /\ obs' = [obs EXCEPT !.db = fault, !.unit = UnitExit(fault)]
  /\ result' = IF fault = "ok" THEN NoResult ELSE Raised(ExitError(fault)[1].class)
  /\ UNCHANGED <<live, active_sessions, orphaned_keys, args, state_entries, agents>>
  /\ recovering' = FALSE

\* the result goes back to the caller; the locals of the request are dropped
Return ==
  /\ UNCHANGED <<input, output>>
  /\ pc = "done"
  /\ written' = {}
  /\ tables' = tables
  /\ pc' = "idle"
  /\ op' = "none"
  /\ active_sessions' = {}
  /\ orphaned_keys' = <<>>
  /\ args' = NoArgs
  /\ state_entries' = <<>>
  /\ agents' = <<>>
  /\ result' = NoResult
  /\ startStore' = <<>>
  /\ obs' = NoObs
  /\ envSteps' = 0
  /\ UNCHANGED <<store, live, conn>>
  /\ recovering' = FailedRequest

Next ==
  \/ \E r \in WriterRows : WriterUpsert(r)
  \/ \E s \in Sessions : SessionStart(s)
  \/ \E s \in Sessions : SessionEnd(s)
  \/ \E o \in RegistryOutcomes, j \in JunkLines : CleanupQuery(o, j)
  \/ \E f \in {"ok", "connect", "select"} : CleanupSelect(f)
  \/ \E f \in {"ok", "delete", "commit"} : CleanupDelete(f)
  \/ \E a \in ListFilters, f \in {"ok", "connect", "select"} : Scan(a[1], a[2], f)
  \/ \E o \in RegistryOutcomes, j \in JunkLines : Enrich(o, j)
  \/ \E c \in ClientRoots, e \in ExplicitRoots, f \in {"ok", "connect", "delete", "commit"} :
       DeleteRepoAgents(c, e, f)
  \/ \E f \in {"ok", "connect", "ddl"} : Startup(f)
  \/ Return

Spec == Init /\ [][Next]_vars

\* a step of a list_agents call that has begun; the enrichment query is cut
\* off by its timeout at the latest, or ends before that in any other way
ListStep ==
  \/ \E f \in {"ok", "connect", "select"} : CleanupSelect(f)
  \/ \E f \in {"ok", "delete", "commit"} : CleanupDelete(f)
  \/ \E a \in ListFilters, f \in {"ok", "connect", "select"} : Scan(a[1], a[2], f)
  \/ Enrich("TimeoutExpired", <<>>)
  \/ \E o \in RegistryOutcomes, j \in JunkLines : Enrich(o, j)

\* the rows the writers upsert while the termination of a call is examined:
\* the record of the first session and a record with a malformed key
LiveRows ==
  {Row(SessionKey(Sess1), <<"/", "r">>, "working"), Row(MalformedKey, <<"/", "r">>, "working")}

\* tables the writers can have left behind when list_agents is called
LiveStores ==
  {t \in UNION {[1..k -> LiveRows] : k \in 0..MaxRows} :
     \A i, j \in DOMAIN t : t[i].key = t[j].key => i = j}

\* the server is idle after startup, on any table and any set of sessions
LiveInit ==
  /\ store \in LiveStores
  /\ live \in SUBSET Sessions
  /\ pc = "idle"
  /\ op = "none"
  /\ conn = FALSE
  /\ active_sessions = {}
  /\ orphaned_keys = <<>>
  /\ args = NoArgs
  /\ state_entries = <<>>
  /\ agents = <<>>
  /\ result = NoResult
  /\ startStore = <<>>
  /\ obs = NoObs
  /\ envSteps = 0
  /\ written = {}
  /\ tables = 1
  /\ recovering = FALSE
  /\ input = None
  /\ output = None

\* one list_agents call, with the writers and the sessions acting during it
LiveNext ==
  \/ \E o \in RegistryOutcomes, j \in JunkLines : CleanupQuery(o, j)
  \/ ListStep
  \/ pc # "idle" /\ \E r \in LiveRows : WriterUpsert(r)
  \/ pc # "idle" /\ \E s \in Sessions : SessionStart(s)
  \/ pc # "idle" /\ \E s \in Sessions : SessionEnd(s)

\* a list_agents call under the assumption that every call it makes returns
\* or raises: subprocess.run is bounded by its timeout and the store calls
\* return, so a call that has begun takes its next step
SpecLive == LiveInit /\ [][LiveNext]_vars /\ WF_vars(ListStep)

TypeOK ==
  /\ pc \in {"idle", "cleanup_select", "cleanup_delete", "scan", "enrich", "done"}
  /\ op \in {"none", "list", "delete", "startup"}
  /\ tables \in {0, 1}
  /\ recovering \in BOOLEAN
  /\ tables = 0 => store = <<>>
  /\ conn \in BOOLEAN
  /\ Len(store) <= MaxRows
  /\ live \subseteq Sessions
  /\ result.status \in {"none", "success", "error", "raised"}
  /\ obs.db \in UnitFaults \cup {"none", "nodelete"}
  /\ obs.scan \in UnitFaults \cup {"none"}

(***************************************************************************)
(* Vocabulary of the properties                                            *)
(***************************************************************************)
\* a list_agents call is past its reconciliation
CleanupOver == op = "list" /\ pc \in {"scan", "enrich", "done"}

\* no writer or session event happened since the request began
Undisturbed == envSteps = 0

\* the reconciliation's registry query succeeded and its unit of work committed
PurgeCommitted == obs.reg = "ok" /\ obs.db \in {"ok", "nodelete"}

\* the registry failures the specification names: non-zero exit, timeout,
\* missing binary
Degraded == {"nonzero", "TimeoutExpired", "FileNotFoundError"}

\* the rows of a table whose key is in a set, in table order
RowsWithKeyIn(rows, keys) == SelectRows(rows, {q \in Range(rows) : q.key \in keys})

C2_DegradedPurgesAll ==
  (CleanupOver /\ Undisturbed /\ obs.reg \in Degraded) => store = <<>>

\* C2 amended: when the reconciliation's registry query is degraded, the
\* purge is skipped: the store is not opened and every persisted record is
\* left unchanged; only a query that exits with status 0 and reports no
\* session purges every record.
C2_DegradedSkipsPurge ==
  /\ (CleanupOver /\ obs.reg \in Degraded) => obs.db = "none"
  /\ (CleanupOver /\ Undisturbed /\ obs.reg \in Degraded) => store = startStore
  /\ (CleanupOver /\ Undisturbed /\ PurgeCommitted /\ active_sessions = {}) => store = <<>>

\* a degraded reconciliation has ended on a table that holds records
C2_Witness ==
  CleanupOver /\ Undisturbed /\ obs.reg = "TimeoutExpired" /\ store # <<>>

\* C3: cleanup_dead_sessions never raises to its caller: whatever the
\* registry outcome and the store outcome, it has returned normally once
\* list_agents is past it.
C3_CleanupNeverRaises ==
  /\ obs.ended # "raised"
  /\ CleanupOver /\ pc # "done" => obs.ended = "returned"

\* a reconciliation has returned after its delete failed
C3_Witness ==
  pc = "scan" /\ obs.reg = "ok" /\ obs.db = "delete" /\ obs.ended = "returned"

\* the agents a successful list_agents returned
Returned == result.agents[1]

\* list_agents has returned a success result
ListSucceeded == op = "list" /\ pc = "done" /\ result.status = "success"

PlusCount(key) == Cardinality({i \in DOMAIN key : key[i] = "+"})

\* a key that decodes into three parts
WellFormed(key) == PlusCount(key) >= 2

\* the name field of a well-formed key: what precedes the first '+'
NameOfKey(key) ==
  SubSeq(key, 1, (CHOOSE i \in DOMAIN key : key[i] = "+" /\ \A j \in 1..(i-1) : key[j] # "+") - 1)

\* a scanned row passes the filters of the call
PassesFilters(row) ==
  /\ args.name # None => NameOfKey(row.key) = args.name[1]
  /\ args.repo # None =>
       \E i \in 0..Len(row.repo) : \E j \in i..Len(row.repo) :
          Lower(SubSeq(row.repo, i + 1, j)) = Lower(args.repo[1])

\* the scanned rows list_agents has to return
Expected == {i \in DOMAIN state_entries :
               WellFormed(state_entries[i].key) /\ PassesFilters(state_entries[i])}

\* C5: if the enrichment query of list_agents fails by timeout, missing
\* binary or non-zero exit, list_agents still returns success; the result
\* holds one agent for every scanned well-formed record that passes the
\* filters, with that record's status and namespace, and every directory is
\* None.
C5_RegistryFailureStillLists ==
  (op = "list" /\ pc = "done" /\ obs.enrich \in Degraded) =>
     /\ result.status = "success"
     /\ Len(Returned) = Cardinality(Expected)
     /\ \A i \in Expected : \E j \in DOMAIN Returned :
           /\ AgentKey(Returned[j]) = state_entries[i].key
           /\ Returned[j].status = state_entries[i].status
           /\ Returned[j].repo = state_entries[i].repo
     /\ \A j \in DOMAIN Returned : Returned[j].directory = None

\* the enrichment query timed out while a listed agent's session was alive
C5_Witness ==
  /\ ListSucceeded /\ obs.enrich = "TimeoutExpired"
  /\ \E j \in DOMAIN Returned : \E s \in live : SessionKey(s) = AgentKey(Returned[j])

\* C6: list_agents returns status error if and only if its store access
\* (connect or select) fails; no registry failure produces an error result,
\* and an error result carries no agents list.
C6_ErrorIffStoreFails ==
  (op = "list" /\ pc = "done") =>
     /\ result.status = "error" <=> obs.scan \in {"connect", "select"}
     /\ result.status = "error" => result.agents = None
     /\ (obs.scan = "ok" /\ (obs.reg # "ok" \/ obs.enrich # "ok")) => result.status # "error"

\* the select of list_agents failed after a degraded reconciliation
C6_Witness ==
  op = "list" /\ pc = "done" /\ result.status = "error" /\ obs.scan = "select"
  /\ obs.reg = "FileNotFoundError"

\* C7 as claimed: a registry failure other than missing binary, non-zero
\* exit and timeout (an OS error that is not file-not-found) is never fatal,
\* neither in the reconciliation nor in the enrichment: list_agents still
\* returns a success result when its store scan succeeded.
C7_OtherRegistryFailureNotFatal ==
  (op = "list" /\ pc = "done" /\ obs.scan # "connect" /\ obs.scan # "select"
     /\ (obs.reg = "PermissionError" \/ obs.enrich = "PermissionError")) =>
       /\ obs.ended = "returned"
       /\ result.status = "success"

\* C8: the store is the sole source of existence: every returned agent
\* carries the key, status and namespace of a row of the store scan, and a
\* session with no scanned row never appears, whatever the registry reports.
C8_StoreIsSourceOfExistence ==
  ListSucceeded =>
     /\ \A j \in DOMAIN Returned : \E i \in DOMAIN state_entries :
           /\ AgentKey(Returned[j]) = state_entries[i].key
           /\ Returned[j].status = state_entries[i].status
           /\ Returned[j].repo = state_entries[i].repo
     /\ \A s \in Sessions : SessionKey(s) \notin KeysOf(state_entries) =>
           \A j \in DOMAIN Returned : AgentKey(Returned[j]) # SessionKey(s)

\* the enrichment reported a live session that has no row, beside a listed agent
C8_Witness ==
  /\ ListSucceeded /\ obs.enrich = "ok" /\ Returned # <<>>
  /\ \E s \in live : SessionKey(s) \notin KeysOf(state_entries)

\* p is a prefix of s
StartsWith(s, p) == Len(s) >= Len(p) /\ SubSeq(s, 1, Len(p)) = p

\* delete_repo_agents has returned a success result
DeleteSucceeded == op = "delete" /\ pc = "done" /\ result.status = "success"

\* the rows that were in the store when the request began and are gone
Removed == {i \in DOMAIN startStore : startStore[i] \notin Range(store)}

\* C9 as claimed: delete_repo_agents(ns) removes a record if and only if its
\* namespace equals ns character for character or starts with ns followed by
\* '/'; every other record is never removed.
C9_DeletionIsPrefixExact ==
  DeleteSucceeded =>
     \A i \in DOMAIN startStore :
        i \in Removed <=>
           \/ startStore[i].repo = obs.namespace[1]
           \/ StartsWith(startStore[i].repo, obs.namespace[1] \o <<"/">>)

\* C10: on success delete_repo_agents returns deleted_count equal to the
\* number of records that were in the store before the call and are absent
\* after it.
C10_DeletedCountIsRemoved ==
  DeleteSucceeded =>
     /\ result.deleted_count = Some(Cardinality(Removed))
     /\ Len(store) = Len(startStore) - Cardinality(Removed)

\* a namespace and its subdirectory were deleted: the count is 2
C10_Witness ==
  /\ DeleteSucceeded /\ result.deleted_count = Some(2)
  /\ \E i \in DOMAIN startStore : startStore[i].repo = obs.namespace[1]
  /\ \E i \in DOMAIN startStore : startStore[i].repo # obs.namespace[1]

\* delete_repo_agents has returned (a success or an error result)
DeleteOver == op = "delete" /\ pc = "done"

\* a record lies in the namespace or its subtree
InSubtree(repo, namespace) == repo = namespace \/ StartsWith(repo, namespace \o <<"/">>)

\* C11 as claimed: a deletion request never queries the live registry and
\* never runs the reconciliation, and it leaves every record outside the
\* requested namespace and its subtree in the store, unchanged, whether or
\* not its session is alive.
C11_DeleteLeavesOthers ==
  DeleteOver =>
     /\ obs.reg = "none" /\ obs.enrich = "none" /\ obs.ended = "none"
     /\ obs.namespace = None => store = startStore
     /\ obs.namespace # None =>
          \A i \in DOMAIN startStore :
             ~InSubtree(startStore[i].repo, obs.namespace[1]) =>
                startStore[i] \in Range(store)

\* the caller passed a usable repo_root argument (a non-empty string)
HasExplicitRoot == args.repo_root # None /\ args.repo_root[1] # <<>>

\* C12: resolve_repo_root returns the normalized client root whenever the
\* client lists one, whatever repo_root says; without a client root it returns
\* the normalized repo_root when that is a non-empty string; with neither it
\* raises ValueError and resolves nothing.
C12_ClientRootFirst ==
  DeleteOver =>
     /\ args.client_root # None =>
          /\ obs.resolve = "ok"
          /\ obs.namespace = Some(NormalizePath(args.client_root[1]))
     /\ (args.client_root = None /\ HasExplicitRoot) =>
          /\ obs.resolve = "ok"
          /\ obs.namespace = Some(NormalizePath(args.repo_root[1]))
     /\ (args.client_root = None /\ ~HasExplicitRoot) =>
          /\ obs.resolve = "ValueError"
          /\ obs.namespace = None

\* a client root and a different repo_root: the client root is the namespace
C12_Witness ==
  /\ DeleteOver
  /\ args.client_root = Some(<<"/", "r", "/">>)
  /\ args.repo_root = Some(<<"/", "r", "x">>)
  /\ obs.namespace = Some(<<"/", "r">>)

\* C13: when neither a client root nor a non-empty repo_root is available,
\* delete_repo_agents returns an error result carrying the message of the
\* resolution failure, never opens the store, and leaves every record as it was.
C13_UnresolvedIsErrorResult ==
  (DeleteOver /\ args.client_root = None /\ ~HasExplicitRoot) =>
     /\ result = ErrorResult(RootsMessage)
     /\ obs.db = "none"
     /\ ~conn
     /\ store = startStore

\* an empty repo_root and no client root, with records in the store
C13_Witness ==
  /\ DeleteOver
  /\ args.client_root = None
  /\ args.repo_root = Some(<<>>)
  /\ result.status = "error"
  /\ Len(store) = MaxRows

\* the rows of the namespace of a delete_repo_agents call, by the code's match
Targeted == {q \in Range(startStore) : NamespaceMatch(q.repo, obs.namespace[1])}

\* C14: when the store fails during delete_repo_agents, in the connect, in the
\* DELETE or in the commit, the call returns an error result that says
\* 'Failed to clean up database' and does not raise, and the store holds
\* exactly the records it held before the call.
C14_DeleteFailureIsErrorResult ==
  (DeleteOver /\ obs.db \in {"connect", "delete", "commit"}) =>
     /\ result = ErrorResult("Failed to clean up database")
     /\ store = startStore

\* the DELETE failed with records of the namespace in the store
C14_Witness ==
  /\ DeleteOver
  /\ obs.db = "delete"
  /\ Targeted # {}
  /\ result.status = "error"

\* the fault of the unit of work that was left last in the current request
LastFault == IF op = "list" /\ obs.scan # "none" THEN obs.scan ELSE obs.db

\* C15: a unit of work under connection() is all-or-nothing.  When it is left
\* normally the store holds the changes of its body; when the connect, a
\* statement of the body or the commit raises, the store is what it was before
\* the unit and the exception leaves the context manager.  Stated for the unit
\* of delete_repo_agents and, with no writer in between, for the unit of the
\* reconciliation.
C15_UnitIsAllOrNothing ==
  /\ (DeleteOver /\ obs.resolve = "ok") =>
        IF obs.db = "ok"
        THEN /\ store = DeleteNamespace(startStore, obs.namespace[1])
             /\ obs.unit.error = None
        ELSE /\ store = startStore
             /\ obs.unit.error # None
             /\ result.status # "success"
  /\ (op = "list" /\ pc = "scan" /\ Undisturbed /\ obs.reg = "ok") =>
        IF obs.db \in {"ok", "nodelete"}
        THEN /\ store = DeleteKeys(startStore, orphaned_keys)
             /\ obs.unit.error = None
        ELSE /\ store = startStore
             /\ obs.unit.error # None

\* the commit of a DELETE that had removed records failed
C15_Witness ==
  /\ DeleteOver
  /\ obs.db = "commit"
  /\ Targeted # {}
  /\ store = startStore

\* C16: the connection that connection() opened is closed on every exit path:
\* whenever the server is not inside a unit of work (only the reconciliation
\* has a state between its select and its delete), no connection is open.
C16_NoConnectionLeftOpen == pc # "cleanup_delete" => ~conn

\* the reconciliation's unit was left by an exception of its DELETE
C16_Witness == op = "list" /\ pc = "scan" /\ obs.db = "delete" /\ ~conn

\* C17: when sqlite3.connect fails, connection() raises a store error whose
\* message is 'Failed to connect to database at' followed by the path, and
\* neither rollback nor close nor commit is called, there being no connection.
C17_ConnectFailureNamesPath ==
  (pc # "idle" /\ LastFault = "connect") =>
     /\ obs.unit.error = Some([class |-> "sqlite3.Error",
                               text |-> "Failed to connect to database at",
                               path |-> Some(DbPath)])
     /\ obs.unit.calls = <<>>
     /\ ~conn

\* the scan of list_agents could not connect
C17_Witness ==
  /\ op = "list" /\ pc = "done"
  /\ obs.scan = "connect"
  /\ obs.unit.error # None
  /\ result.status = "error"

\* the positions of the records of a key in the table
RecordsOf(key) == {i \in DOMAIN store : store[i].key = key}

\* C18: no reachable table holds two records with the same key, and after a
\* key was upserted once or several times, with the same or another status,
\* the table holds exactly one record for it: the namespace and status of the
\* last write.
C18_OneRecordPerKey ==
  /\ \A i, j \in DOMAIN store : store[i].key = store[j].key => i = j
  /\ \A w \in written :
        /\ Cardinality(RecordsOf(w.row.key)) = 1
        /\ \A i \in RecordsOf(w.row.key) : store[i] = w.row

\* a key written with two statuses, the last write replacing a record
C18_Witness ==
  \E w \in written :
     /\ w.replaced
     /\ Cardinality(w.statuses) = 2
     /\ w.row \in Range(store)

\* C19: writers that share the store lose no committed write.  Whatever the
\* order in which the writers' upserts commit, every key written is in the
\* table afterwards, and a key written by several upserts has exactly one
\* record, whose status is one of the statuses written for it.
C19_NoCommittedWriteLost ==
  \A w \in written :
     /\ w.row.key \in KeysOf(store)
     /\ Cardinality(RecordsOf(w.row.key)) = 1
     /\ \A i \in RecordsOf(w.row.key) : store[i].status \in w.statuses

\* two keys written, one of them more than once, and both in the table
C19_Witness ==
  /\ Cardinality({w.row.key : w \in written}) = 2
  /\ \E w \in written : w.replaced
  /\ Len(store) = 2

\* startup (init_schema) has returned or raised
StartupOver == op = "startup" /\ pc = "done"

\* C20: schema initialization is idempotent: after any call of init_schema
\* there is at most one state table, exactly one when the call succeeded, and
\* the table holds exactly the records it held before the call.
C20_InitSchemaIdempotent ==
  StartupOver =>
     /\ tables <= 1
     /\ obs.db = "ok" => tables = 1
     /\ store = startStore

\* a successful call on a database that already holds records
C20_Witness ==
  /\ StartupOver
  /\ obs.db = "ok"
  /\ Len(startStore) = MaxRows
  /\ store = startStore

\* C21: the server never creates or modifies a record.  Every record of every
\* reachable table is a row an external writer wrote, and every step of the
\* server (startup, the reconciliation's steps, the scan, the enrichment, the
\* deletion, the return) leaves a table that is the table before the step with
\* some records removed: no new record, no changed field, no change of order.
C21_ServerOnlyRemoves ==
  /\ [](Range(store) \subseteq WriterRows)
  /\ [][pc' # pc => store' = SelectRows(store, Range(store'))]_vars

\* a reconciliation removed one of two records and left the other as written
C21_Witness ==
  /\ op = "list" /\ pc = "scan" /\ obs.db = "ok" /\ Undisturbed
  /\ Len(startStore) = 2 /\ Len(store) = 1
  /\ store[1] \in Range(startStore) \cap WriterRows

\* the store scan of a list_agents call succeeded and its loop has run
Scanned == op = "list" /\ pc \in {"enrich", "done"} /\ obs.scan = "ok"

\* the scanned rows whose key does not decode into three parts
Malformed == {i \in DOMAIN state_entries : ~WellFormed(state_entries[i].key)}

\* C22: a scanned record whose key does not decode into exactly three parts
\* is skipped silently: every agent of the list is built from a well-formed
\* scanned record (nothing is built from a part of a malformed key), the
\* result is not an error, and every well-formed record that passes the
\* filters has its agent.
C22_MalformedKeySkipped ==
  Scanned =>
     /\ \A j \in DOMAIN agents : \E i \in DOMAIN state_entries \ Malformed :
           AgentKey(agents[j]) = state_entries[i].key
     /\ result.status # "error"
     /\ Len(agents) = Cardinality(Expected)
     /\ \A i \in Expected : \E j \in DOMAIN agents :
           AgentKey(agents[j]) = state_entries[i].key

\* a malformed and a well-formed record were scanned and one agent is returned
C22_Witness ==
  /\ ListSucceeded
  /\ Malformed # {}
  /\ Len(state_entries) = 2
  /\ Len(Returned) = 1

(***************************************************************************)
(* The key codec on its own: encode three fields, decode the key           *)
(***************************************************************************)
\* all strings over chars of length at most n
Strings(chars, n) == UNION {[1..k -> chars] : k \in 0..n}

\* characters of the session fields; '+' is the delimiter of the key
FieldChars == {"a", "1", "+"}

Fields == Strings(FieldChars, MaxFieldLen)

CodecInit ==
  /\ InitServer
  /\ input \in [name : Fields, session_id : Fields, session_created : Fields]
  /\ output = None

\* the key is built as cleanup_dead_sessions and the enrichment build it
EncodeFields ==
  /\ output = None
  /\ output' = Some([key |-> CompositeKey(input.name, input.session_id,
                                          input.session_created),
                     parts |-> None, lookup |-> None])
  /\ UNCHANGED <<serverVars, input>>

\* the key is split as the loop of list_agents splits it
DecodeEncoded ==
  /\ output # None
  /\ output[1].parts = None
  /\ output' = Some([output[1] EXCEPT !.parts = Some(DecodeKey(output[1].key))])
  /\ UNCHANGED <<serverVars, input>>

\* the key the enrichment of list_agents looks up for the agent built from
\* the decoded parts
LookupKey ==
  /\ output # None
  /\ output[1].parts # None
  /\ Len(output[1].parts[1]) = 3
  /\ output[1].lookup = None
  /\ output' = Some([output[1] EXCEPT !.lookup =
                        Some(CompositeKey(output[1].parts[1][1], output[1].parts[1][2],
                                          output[1].parts[1][3]))])
  /\ UNCHANGED <<serverVars, input>>

CodecNext == EncodeFields \/ DecodeEncoded \/ LookupKey

SpecCodec == CodecInit /\ [][CodecNext]_vars

\* the string holds no '+'
NoPlus(s) == \A i \in DOMAIN s : s[i] # "+"

\* the key of the input fields was encoded and decoded
Decoded == output # None /\ output[1].parts # None

\* C23: for every name, instance id and creation time that hold no '+',
\* splitting the key name+id+created on at most two '+' gives back exactly
\* the three fields.
C23_CodecRoundTrip ==
  (Decoded /\ NoPlus(input.name) /\ NoPlus(input.session_id)
           /\ NoPlus(input.session_created)) =>
     output[1].parts[1] = <<input.name, input.session_id, input.session_created>>

\* three different non-empty fields without '+' went through the codec
C23_Witness ==
  /\ Decoded
  /\ input.name = <<"a", "1">> /\ input.session_id = <<"1">>
  /\ input.session_created = <<"1", "a">>
  /\ Len(output[1].parts[1]) = 3

\* the number of '+' in a string
Pluses(s) == Cardinality({i \in DOMAIN s : s[i] = "+"})

\* C37: every key with at least two '+' decodes into three parts, also when
\* its third part holds '+', and the key that the enrichment builds again
\* from the three parts is the stored key itself.
C37_DecodedKeyReencodes ==
  (Decoded /\ Pluses(output[1].key) >= 2) =>
     /\ Len(output[1].parts[1]) = 3
     /\ output[1].lookup # None => output[1].lookup[1] = output[1].key

\* the lookup key of a key with four '+' was built
C37_Witness ==
  /\ Decoded
  /\ output[1].lookup # None
  /\ Pluses(output[1].key) = 4
  /\ Pluses(output[1].parts[1][3]) = 2

(***************************************************************************)
(* The scan and the enrichment of list_agents on tables of many shapes     *)
(***************************************************************************)
\* keys of the scanned rows: the two sessions' keys, a key whose name differs
\* from the first one's by case only, a key whose third part holds a '+', and
\* the malformed key
KeyUpperName == <<"A", "+", "1", "+", "x">>

KeyExtraPlus == <<"a", "+", "2", "+", "x", "+", "y">>

\* rows of those keys under namespaces that hold "rx" in either case, that
\* hold r and x apart, and that hold neither
ListRows ==
  { Row(SessionKey(Sess1), <<"/", "R", "x">>, "working"),
    Row(SessionKey(Sess1), <<"/", "o">>, "waiting"),
    Row(KeyUpperName, <<"/", "R", "X", "-", "s">>, "working"),
    Row(SessionKey(Sess2), <<"/", "r", "/", "x">>, "waiting"),
    Row(SessionKey(Sess2), <<"/", "a", "r", "x">>, "working"),
    Row(KeyExtraPlus, <<"/", "o">>, "working"),
    Row(MalformedKey, <<"/", "R", "x">>, "working") }

\* the tables of at most MaxRows of those rows, one row per key, in any order
ListStores ==
  {t \in UNION {[1..k -> ListRows] : k \in 0..MaxRows} :
     \A i, j \in DOMAIN t : t[i].key = t[j].key => i = j}

\* name filters: none, a name, the same name in upper case
ListNames == {None, Some(<<"a">>), Some(<<"A">>)}

\* repo filters: none, a substring in lower and in upper case, the empty string
ListRepos == {None, Some(<<"r", "x">>), Some(<<"R", "X">>), Some(<<>>)}

\* list_agents is past a reconciliation that was skipped
ListInit ==
  /\ store \in ListStores
  /\ live \in SUBSET Sessions
  /\ pc = "scan"
  /\ op = "list"
  /\ conn = FALSE
  /\ active_sessions = {}
  /\ orphaned_keys = <<>>
  /\ args = NoArgs
  /\ state_entries = <<>>
  /\ agents = <<>>
  /\ result = NoResult
  /\ startStore = store
  /\ obs = [NoObs EXCEPT !.reg = "nonzero", !.ended = "returned"]
  /\ envSteps = 0
  /\ written = {}
  /\ tables = 1
  /\ recovering = FALSE
  /\ input = None
  /\ output = None

ListNext ==
  \/ \E n \in ListNames, r \in ListRepos, f \in {"ok", "connect", "select"} : Scan(n, r, f)
  \/ \E o \in RegistryOutcomes, j \in JunkLines : Enrich(o, j)

SpecList == ListInit /\ [][ListNext]_vars

\* f is a substring of repo when both are lower-cased
RepoMatches(repo, f) ==
  \E i \in 0..Len(repo) : \E j \in i..Len(repo) :
     Lower(SubSeq(repo, i + 1, j)) = Lower(f)

\* the scanned row has an agent in the list
Listed(i) == \E j \in DOMAIN agents : AgentKey(agents[j]) = state_entries[i].key

\* C24: with a repo filter f the list holds exactly the well-formed scanned
\* records (that pass the name filter, if any) whose namespace contains f as
\* a substring when both are lower-cased; with no repo filter no record is
\* left out on account of its namespace.
C24_RepoFilterIsSubstring ==
  Scanned =>
     \A i \in DOMAIN state_entries :
        Listed(i) <=>
           /\ WellFormed(state_entries[i].key)
           /\ args.name # None => NameOfKey(state_entries[i].key) = args.name[1]
           /\ args.repo # None => RepoMatches(state_entries[i].repo, args.repo[1])

\* filter "rx": the record under /Rx is listed, the one under /r/x is not
C24_Witness ==
  /\ Scanned
  /\ args.name = None /\ args.repo = Some(<<"r", "x">>)
  /\ \E i \in DOMAIN state_entries :
        state_entries[i].repo = <<"/", "R", "x">> /\ Listed(i)
  /\ \E i \in DOMAIN state_entries :
        state_entries[i].repo = <<"/", "r", "/", "x">> /\ ~Listed(i)

\* C25: with a name filter n the list holds exactly the well-formed scanned
\* records whose decoded name is n, character for character and as a whole;
\* with a repo filter as well, a record is listed only if it passes both.
C25_NameFilterIsExact ==
  (Scanned /\ args.name # None) =>
     /\ \A j \in DOMAIN agents : agents[j].name = args.name[1]
     /\ \A i \in DOMAIN state_entries :
           Listed(i) <=>
              /\ PlusCount(state_entries[i].key) >= 2
              /\ NameOfKey(state_entries[i].key) = args.name[1]
              /\ args.repo = None \/ RepoMatches(state_entries[i].repo, args.repo[1])

\* name "a" with repo "RX": of the records named a and A, both under matching
\* namespaces, only the one named a is listed
C25_Witness ==
  /\ Scanned
  /\ args.name = Some(<<"a">>) /\ args.repo = Some(<<"R", "X">>)
  /\ Len(agents) = 1
  /\ \E i \in DOMAIN state_entries :
        state_entries[i].key = KeyUpperName /\ ~Listed(i)

\* the position in the scan of the row an agent was built from
ScanPos(agent) == CHOOSE i \in DOMAIN state_entries : state_entries[i].key = AgentKey(agent)

\* C27: the agents list is in store-scan order: it holds one agent for each
\* scanned row that is well-formed and passes the filters, in the order of the
\* scan, and it is so before and after the enrichment, which neither
\* reorders nor duplicates nor drops an entry.
C27_ListInScanOrder ==
  Scanned =>
     /\ Len(agents) = Cardinality(Expected)
     /\ \A j \in DOMAIN agents : ScanPos(agents[j]) \in Expected
     /\ \A j, k \in DOMAIN agents : j < k => ScanPos(agents[j]) < ScanPos(agents[k])
     /\ (pc = "done" /\ result.status = "success") => Returned = agents

\* two agents were returned, enriched by a query that found one session alive
C27_Witness ==
  /\ ListSucceeded
  /\ obs.enrich = "ok"
  /\ Len(Returned) = 2
  /\ Returned[1].directory # None /\ Returned[2].directory = None
  /\ state_entries[1].key = SessionKey(Sess2)

\* the sessions alive when the enrichment query ran (none can start or end
\* between the query and the return)
LiveKeys == {SessionKey(s) : s \in live}

PathChars == {"/", "r", "."}

PathStrings == Strings(PathChars, MaxPathLen)

NormalizeInit ==
  /\ InitServer
  /\ input \in PathStrings
  /\ output = None

\* normalize_path(p)
NormalizeInput ==
  /\ output = None
  /\ output' = Some([path |-> NormalizePath(input), again |-> None, slashed |-> None])
  /\ UNCHANGED <<serverVars, input>>

\* normalize_path(normalize_path(p))
NormalizeAgain ==
  /\ output # None
  /\ output[1].again = None
  /\ output' = Some([output[1] EXCEPT !.again = Some(NormalizePath(output[1].path))])
  /\ UNCHANGED <<serverVars, input>>

\* normalize_path(p + '/')
NormalizeSlashed ==
  /\ output # None
  /\ output[1].slashed = None
  /\ output' = Some([output[1] EXCEPT !.slashed = Some(NormalizePath(input \o <<"/">>))])
  /\ UNCHANGED <<serverVars, input>>

NormalizeNext == NormalizeInput \/ NormalizeAgain \/ NormalizeSlashed

SpecNormalize == NormalizeInit /\ [][NormalizeNext]_vars

\* an absolute path string that is not made of separators only
NonRootAbsolute(p) == p # <<>> /\ p[1] = "/" /\ \E i \in DOMAIN p : p[i] # "/"

\* C28 as claimed: normalize_path strips the trailing separator of every path
\* but the root and is idempotent: normalize(p + '/') = normalize(p) for
\* every absolute p that is not the root, normalize('/') = '/', and
\* normalize(normalize(p)) = normalize(p) for every p.
C28_NormalizeIdempotent ==
  output # None =>
     /\ (NonRootAbsolute(input) /\ output[1].slashed # None) =>
           output[1].slashed[1] = output[1].path
     /\ input = <<"/">> => output[1].path = <<"/">>
     /\ output[1].again # None => output[1].again[1] = output[1].path

\* C39 as claimed: for every path string normalize_path returns a non-empty
\* absolute path, one that begins with '/', so that the namespace handed to
\* the DELETE of delete_repo_agents is never the empty string.
C39_NormalizeIsAbsolute ==
  output # None => (output[1].path # <<>> /\ output[1].path[1] = "/")

\* C30: when the registry command of the reconciliation exits with a non-zero
\* status, cleanup_dead_sessions returns without opening the store: no
\* connection, no unit of work, no orphan collected, and (no writer acting
\* meanwhile) the table is the one the call found.
C30_NonzeroExitSkipsStore ==
  (op = "list" /\ pc = "scan" /\ obs.reg = "nonzero") =>
     /\ obs.ended = "returned"
     /\ obs.db = "none"
     /\ obs.unit = NoUnit
     /\ ~conn
     /\ orphaned_keys = <<>>
     /\ Undisturbed => store = startStore

\* the command exited non-zero while the table held a record of a dead session
C30_Witness ==
  /\ op = "list" /\ pc = "scan" /\ obs.reg = "nonzero" /\ Undisturbed
  /\ \E i \in DOMAIN store : store[i].key \notin LiveKeys

(***************************************************************************)
(* Availability after a failed request                                     *)
(***************************************************************************)

\* the request that has just ended failed
FailedOver == pc = "done" /\ FailedRequest

\* C29: after a failed request (a list_agents or delete_repo_agents call that
\* returned an error result, or a list_agents call whose reconciliation
\* swallowed a failure) the server remains available: no connection and so no
\* transaction is left open, the store holds no partial change (it is what
\* it was before the request, or that with the whole purge of a
\* reconciliation that committed before the scan failed), and the next
\* request, when none of its registry and store calls fails, returns a
\* success result.
C29_AvailableAfterFailure ==
  /\ FailedOver => ~conn
  /\ (FailedOver /\ op = "delete") => store = startStore
  /\ (FailedOver /\ op = "list" /\ Undisturbed) =>
        store = IF obs.reg = "ok" /\ obs.db \in {"ok", "nodelete"}
                THEN DeleteKeys(startStore, orphaned_keys)
                ELSE startStore
  /\ (pc = "done" /\ op \in {"list", "delete"} /\ recovering) =>
        result.status = "success"

\* a delete_repo_agents call that follows a failed request removed records
C29_Witness ==
  /\ DeleteOver
  /\ recovering
  /\ result.status = "success"
  /\ store # startStore

(***************************************************************************)
(* The purge of the reconciliation                                         *)
(***************************************************************************)

\* the reconciliation's DELETE has just been applied and committed; no session
\* starts or ends between that step and the scan, so live is the set of live
\* sessions at the moment of the delete
PurgeApplied == op = "list" /\ pc = "scan" /\ obs.db = "ok"

\* C31: whatever sessions start and writers upsert during a reconciliation,
\* no record it deletes has the key of a session that is live at the moment
\* the delete is applied.
C31_NeverDeletesLive ==
  PurgeApplied => Range(orphaned_keys) \cap LiveKeys = {}

\* the reconciliation's unit of work got past its SELECT
PurgeDecided ==
  op = "list" /\ pc \in {"scan", "enrich", "done"}
    /\ obs.db \in {"ok", "nodelete", "delete", "commit"}

\* the keys of the table the reconciliation selected from that were not in
\* its live set (no writer acts between the start of list_agents and the
\* SELECT that it does not commute with)
Orphans == KeysOf(startStore) \ active_sessions

\* C32: a reconciliation that got to its purge issued exactly one DELETE
\* statement, which names every orphaned key and no other key, when there
\* were orphans, and no DELETE statement when every persisted key was live.
C32_PurgeIsOneBatch ==
  PurgeDecided =>
     IF Orphans = {}
     THEN obs.deletes = <<>> /\ obs.db = "nodelete"
     ELSE /\ Len(obs.deletes) = 1
          /\ Range(obs.deletes[1]) = Orphans
          /\ obs.db # "nodelete"

\* one statement removed two orphans
C32_Witness ==
  /\ PurgeDecided /\ pc = "scan" /\ Undisturbed
  /\ Len(obs.deletes) = 1
  /\ Len(obs.deletes[1]) = 2
  /\ store = <<>>

\* the reconciliation has just ended after its purge was decided, and no
\* writer has committed since its unit of work was left
PurgeEnded == PurgeDecided /\ pc = "scan" /\ written = {}

\* C33: the purge is atomic.  When a reconciliation ends, every key it
\* identified as orphaned is gone from the store, or, when its DELETE or its
\* commit failed, every one of them is still there; the store never holds
\* only part of the orphan set, and with no writer in between it is the table
\* the reconciliation began with, whole or without exactly the orphans.
C33_PurgeIsAtomic ==
  PurgeEnded =>
     /\ obs.db \in {"ok", "nodelete"} => KeysOf(store) \cap Orphans = {}
     /\ obs.db \in {"delete", "commit"} => Orphans \subseteq KeysOf(store)
     /\ Undisturbed =>
           store = IF obs.db \in {"delete", "commit"} THEN startStore
                   ELSE RowsWithKeyIn(startStore, KeysOf(startStore) \ Orphans)

\* the commit of a purge of two orphans failed and both records are there
C33_Witness ==
  /\ PurgeEnded /\ obs.db = "commit"
  /\ Cardinality(Orphans) = 2
  /\ store = startStore

(***************************************************************************)
(* The parsing of the registry output on its own                           *)
(***************************************************************************)
\* a session whose name begins with a space; tmux lists sessions by name, so
\* its line comes first
SpacedSess == [name |-> <<" ", "c">>, id |-> <<"3">>, created |-> <<"z">>, path |-> <<"/", "r">>]

\* lines tmux list-sessions can print with either format, an empty line and
\* a line with two fields
RegistryLines ==
  {<<>>, ShortLine}
    \cup {SessionLine(s, w) : s \in {Sess1, Sess2, SpacedSess}, w \in BOOLEAN}

\* the captured stdout: every line ends with a newline
RECURSIVE StdoutOf(_)
StdoutOf(lines) ==
  IF lines = <<>> THEN <<>> ELSE lines[1] \o <<"\n">> \o StdoutOf(Tail(lines))

RegistryInit ==
  /\ InitServer
  /\ input \in UNION {[1..k -> RegistryLines] : k \in 0..MaxLines}
  /\ output = None

\* the parsing loop of cleanup_dead_sessions on the output
ParseKeys ==
  /\ output = None
  /\ output' = Some([fn |-> "keys", value |-> ActiveSessions(StdoutOf(input))])
  /\ UNCHANGED <<serverVars, input>>

\* the parsing loop of list_agents on the output
ParseDirectories ==
  /\ output = None
  /\ output' = Some([fn |-> "directories", value |-> TmuxSessions(StdoutOf(input))])
  /\ UNCHANGED <<serverVars, input>>

RegistryNext == ParseKeys \/ ParseDirectories

SpecRegistry == RegistryInit /\ [][RegistryNext]_vars

\* the fields of one output line, split as the loop splits it
LineParts(line, maxsplit) == Split(line, TMUX_FIELD_SEP, maxsplit)

\* the positions of the lines that are not empty and have at least n fields
GoodLines(lines, n) ==
  {i \in DOMAIN lines : lines[i] # <<>> /\ Len(LineParts(lines[i], n - 1)) >= n}

\* the key encoded from the first three fields of a line
LineKey(line, maxsplit) ==
  CompositeKey(LineParts(line, maxsplit)[1], LineParts(line, maxsplit)[2],
               LineParts(line, maxsplit)[3])

\* C34: an output line that is empty or has fewer than three tab-separated
\* fields gives no key and does not stop the parsing: the live set is exactly
\* the set of keys encoded from the other lines; and in the enrichment a line
\* with fewer than four fields gives no directory, the directories being
\* those of the other lines (the last line of a key wins).
C34_MalformedLinesSkipped ==
  output # None =>
     IF output[1].fn = "keys"
     THEN output[1].value = {LineKey(input[i], 2) : i \in GoodLines(input, 3)}
     ELSE output[1].value =
            {<<LineKey(input[i], 3), LineParts(input[i], 3)[4]>> :
               i \in {j \in GoodLines(input, 4) :
                        \A k \in GoodLines(input, 4) :
                           LineKey(input[k], 3) = LineKey(input[j], 3) => k <= j}}

(***************************************************************************)
(* Termination of list_agents                                              *)
(***************************************************************************)
\* the order of the positions of a list_agents call
Rank(p) ==
  CASE p = "idle" -> 0
    [] p = "cleanup_select" -> 1
    [] p = "cleanup_delete" -> 2
    [] p = "scan" -> 3
    [] p = "enrich" -> 4
    [] p = "done" -> 5

\* the registry command of each query completed, with any exit status, or
\* was cut off by its timeout
CommandsRan ==
  /\ obs.reg \in {"ok", "nonzero", "TimeoutExpired"}
  /\ obs.enrich \in {"none", "ok", "nonzero", "TimeoutExpired"}

\* C35: a list_agents call that has begun reaches its return, whatever the
\* writers and sessions do meanwhile; each of its steps is taken once and
\* none is taken again (no retry); and when every registry command completed
\* or timed out, what it returns is a success result or an error result.
C35_ListAgentsReturns ==
  /\ (op = "list" /\ pc # "done") ~> (op = "list" /\ pc = "done")
  /\ [][(pc # "done" /\ pc' # pc) => Rank(pc') > Rank(pc)]_vars
  /\ []((op = "list" /\ pc = "done" /\ CommandsRan) =>
          result.status \in {"success", "error"})

\* a call returned an error result after a failed reconciliation, a writer
\* having acted during the call
C35_Witness ==
  /\ op = "list" /\ pc = "done"
  /\ envSteps > 0
  /\ obs.db = "commit"
  /\ obs.scan = "select"
  /\ result.status = "error"

(***************************************************************************)
(* Malformed keys and the reconciliation                                   *)
(***************************************************************************)
\* C36: after a reconciliation whose registry query succeeded and whose purge
\* committed, no writer or session having acted since the call began, no
\* record with a malformed key (fewer than two '+') is in the store, no key
\* of the live set being malformed; so the scan of list_agents meets a
\* malformed key only when the reconciliation was skipped or failed or
\* something acted during the call.
C36_MalformedKeysPurged ==
  /\ (CleanupOver /\ obs.reg = "ok") => \A k \in active_sessions : WellFormed(k)
  /\ (CleanupOver /\ PurgeCommitted /\ Undisturbed) =>
        \A i \in DOMAIN store : WellFormed(store[i].key)
  /\ (Scanned /\ Malformed # {}) => (~PurgeCommitted \/ ~Undisturbed)

\* a committed purge removed the record with the malformed key and kept the
\* record of a live session
C36_Witness ==
  /\ CleanupOver /\ PurgeCommitted /\ Undisturbed
  /\ MalformedKey \in KeysOf(startStore)
  /\ KeysOf(store) = {SessionKey(Sess1)}

(***************************************************************************)
(* list_agents in a quiescent system                                       *)
(***************************************************************************)
\* list_agents returned a success result, no writer and no session acted
\* during the call, and both registry queries succeeded (and so reported the
\* same live sessions)
QuiescentList ==
  ListSucceeded /\ Undisturbed /\ obs.reg = "ok" /\ obs.enrich = "ok"

\* every returned agent is live and carries its session's directory
AgentsAreLive ==
  \A j \in DOMAIN Returned :
     /\ AgentKey(Returned[j]) \in LiveKeys
     /\ Returned[j].directory =
          Some((CHOOSE s \in live : SessionKey(s) = AgentKey(Returned[j])).path)

====
